---- MODULE Spec2Model ----
(***************************************************************************)
(* knowledgeBaseApi.queryKnowledgeBaseStream                               *)
(* (frontend/src/api/knowledgebase.ts): the streaming SSE client.          *)
(*                                                                         *)
(* Text is a sequence of one-character strings.  A byte chunk is a         *)
(* sequence of bytes; an ASCII byte is written as its character, and the   *)
(* two bytes "C3" "A9" are the UTF-8 encoding of the character "é".        *)
(* Every invocation of the function has its own row in each variable; an   *)
(* action is the synchronous code that runs when one awaited promise       *)
(* (fetch, response.json, reader.read) settles.                            *)
(***************************************************************************)
EXTENDS Integers, Sequences, FiniteSets, TLC

VARIABLES input, pc, pos, pending, buffer, log, reads, outcome

vars == <<input, pc, pos, pending, buffer, log, reads, outcome>>

\* The invocations of queryKnowledgeBaseStream that may be in flight together.
Inv == {1, 2}

(***************************************************************************)
(* Bounds of the model.                                                    *)
(***************************************************************************)
\* The largest number of chunks a response body is cut into.
MaxChunks == 3
\* The largest number of chunks of a body when two invocations run together.
MaxConcChunks == 2
\* Callback invocations 1..MaxThrow may be the one that throws.
MaxThrow == 3

(***************************************************************************)
(* Text helpers.                                                           *)
(***************************************************************************)
NL == "\n"

DATA == <<"d", "a", "t", "a", ":">>

\* The characters String.prototype.trim removes, among those of the model.
WhiteSpace == {" ", "\t", "\r", "\n"}

RECURSIVE Flatten(_)
Flatten(ss) == IF ss = <<>> THEN <<>> ELSE Head(ss) \o Flatten(Tail(ss))

\* line.startsWith(prefix)
StartsWith(line, prefix) ==
    /\ Len(line) >= Len(prefix)
    /\ SubSeq(line, 1, Len(prefix)) = prefix

\* line.substring(n)
Substring(line, n) == SubSeq(line, n + 1, Len(line))

RECURSIVE TrimStart(_)
TrimStart(t) ==
    IF t # <<>> /\ Head(t) \in WhiteSpace THEN TrimStart(Tail(t)) ELSE t

RECURSIVE TrimEnd(_)
TrimEnd(t) ==
    IF t # <<>> /\ t[Len(t)] \in WhiteSpace
    THEN TrimEnd(SubSeq(t, 1, Len(t) - 1))
    ELSE t

\* String.prototype.trim
Trim(t) == TrimEnd(TrimStart(t))

\* text.split('\n'): always at least one element; the last one is the text
\* after the last separator.
RECURSIVE SplitFrom(_, _)
SplitFrom(t, cur) ==
    IF t = <<>> THEN <<cur>>
    ELSE IF Head(t) = NL THEN <<cur>> \o SplitFrom(Tail(t), <<>>)
    ELSE SplitFrom(Tail(t), Append(cur, Head(t)))

Split(t) == SplitFrom(t, <<>>)

(***************************************************************************)
(* TextDecoder('utf-8').decode(value, {stream: true}).  dec is the number  *)
(* of bytes of an unfinished code point the decoder holds (0 or 1).        *)
(* A lead byte followed by a continuation byte gives the character; a lead *)
(* byte followed by anything else gives U+FFFD and the byte is decoded     *)
(* again; a continuation byte alone gives U+FFFD.  With stream: true an    *)
(* unfinished code point at the end of the chunk is kept for the next call.*)
(***************************************************************************)
LeadByte == "C3"
ContByte == "A9"
TwoByteChar == "e-acute"
Replacement == "FFFD"

RECURSIVE DecodeStream(_, _)
DecodeStream(dec, bytes) ==
    IF bytes = <<>> THEN [text |-> <<>>, dec |-> dec]
    ELSE LET b == Head(bytes) IN
         IF dec = 1
         THEN IF b = ContByte
              THEN LET r == DecodeStream(0, Tail(bytes))
                   IN  [text |-> <<TwoByteChar>> \o r.text, dec |-> r.dec]
              ELSE LET r == DecodeStream(0, bytes)
                   IN  [text |-> <<Replacement>> \o r.text, dec |-> r.dec]
         ELSE IF b = LeadByte THEN DecodeStream(1, Tail(bytes))
         ELSE LET r == DecodeStream(0, Tail(bytes))
              IN  [text |-> <<(IF b = ContByte THEN Replacement ELSE b)>> \o r.text,
                   dec |-> r.dec]

(***************************************************************************)
(* Errors and callbacks.  An error message is a sequence of text tokens.   *)
(***************************************************************************)
DigitChar == <<"0", "1", "2", "3", "4", "5", "6", "7", "8", "9">>

\* The decimal text a template literal gives a number: `${response.status}`.
RECURSIVE NumberToString(_)
NumberToString(n) ==
    IF n < 10 THEN <<DigitChar[n + 1]>>
    ELSE NumberToString(n \div 10) \o <<DigitChar[(n % 10) + 1]>>

\* new Error(message)
NewError(message) == [isError |-> TRUE, message |-> message]

\* A thrown value that is not an Error instance.
NonErrorValue == [isError |-> FALSE, message |-> <<"thrown value">>]

\* A status error whose text leaves the status code out.
StatusMessage_NoCode(status) == <<"request failed">>

\* `请求失败 (${response.status})`: "request failed (N)"
StatusMessage(status) == <<"request failed (">> \o NumberToString(status) \o <<")">>

\* '无法获取响应流': the response has no body stream
NoStreamMessage == <<"no response stream">>

\* getErrorMessage of ./request: the message of an Error, a generic text for
\* any other thrown value.
getErrorMessage(e) == IF e.isError THEN e.message ELSE <<"unknown error">>

\* response.ok
ResponseOk(status) == status \in 200..299

OnMessage(content) == [cb |-> "onMessage", text |-> content, error |-> NewError(<<>>)]
OnComplete == [cb |-> "onComplete", text |-> <<>>, error |-> NewError(<<>>)]
OnError(e) == [cb |-> "onError", text |-> <<>>, error |-> e]

\* The callback invocation that has just been appended to lg is the one the
\* caller's callback throws from.
Throws(in, lg) == in.throwAt > 0 /\ Len(lg) = in.throwAt

\* The value a throwing callback throws.
CallbackThrown(in) ==
    IF in.throwsError THEN NewError(<<"callback failed">>) ELSE NonErrorValue

(***************************************************************************)
(* The synchronous sections of queryKnowledgeBaseStream as functions of    *)
(* the invocation's input `in` and its local state                         *)
(*   s = [pc, pos, pending, buffer, log, reads, outcome].                  *)
(***************************************************************************)

\* A catch clause placed inside the read loop: the error is reported and the
\* loop goes on.
Catch_KeepsReading(in, s, e) ==
    LET lg == Append(s.log, OnError(NewError(getErrorMessage(e))))
    IN  [s EXCEPT !.log = lg,
                  !.pc = IF s.pc = "read" THEN "read" ELSE "done",
                  !.outcome = IF s.pc = "read" THEN s.outcome ELSE "resolved"]

\* catch (error) { onError(new Error(getErrorMessage(error))); }
\* An exception of onError itself leaves the async function: the promise
\* rejects.
Catch(in, s, e) ==
    LET lg == Append(s.log, OnError(NewError(getErrorMessage(e))))
    IN  [s EXCEPT !.log = lg,
                  !.pc = "done",
                  !.outcome = IF Throws(in, lg) THEN "rejected" ELSE "resolved"]

\* The function returns normally: the promise resolves.
Return(s) == [s EXCEPT !.pc = "done", !.outcome = "resolved"]

\* errorData && errorData.message
HasMessage(body) ==
    /\ body.kind = "object"
    /\ body.hasMessage
    /\ body.message # <<>>

\* try { const errorData = await response.json(); if (...) throw new
\* Error(errorData.message); }: what the try block throws, if anything.
\* response.json() rejects when the body is absent or is not JSON.
ErrorBodyTry(body) ==
    IF body.kind \in {"absent", "unparsable"}
    THEN [threw |-> TRUE, error |-> NewError(<<"SyntaxError">>)]
    ELSE IF HasMessage(body)
    THEN [threw |-> TRUE, error |-> NewError(body.message)]
    ELSE [threw |-> FALSE, error |-> NewError(<<>>)]

\* The error that leaves the `if (!response.ok)` block.  The inner
\* `catch { }` takes whatever the try block threw, the Error built from the
\* body's message included, and rethrows nothing; line 114 then throws the
\* status error.
FailedResponseError(status, body) ==
    LET t == ErrorBodyTry(body)
    IN  IF t.threw THEN NewError(StatusMessage(status))
        ELSE NewError(StatusMessage(status))

\* The reader is used without the check that the response has a body.
AfterFetch_ReadsAnyway(in, s) ==
    IF in.fetch = "rejects" THEN Catch(in, s, NewError(<<"Failed to fetch">>))
    ELSE IF ~ResponseOk(in.status) THEN [s EXCEPT !.pc = "json"]
    ELSE [s EXCEPT !.pc = "read", !.pending = 0, !.buffer = <<>>]

\* fetch settles; the code runs on to the next await.
AfterFetch(in, s) ==
    IF in.fetch = "rejects" THEN Catch(in, s, NewError(<<"Failed to fetch">>))
    ELSE IF ~ResponseOk(in.status) THEN [s EXCEPT !.pc = "json"]
    ELSE IF ~in.hasBody THEN Catch(in, s, NewError(NoStreamMessage))
    ELSE [s EXCEPT !.pc = "read", !.pending = 0, !.buffer = <<>>]

\* response.json() settles.
AfterJson(in, s) == Catch(in, s, FailedResponseError(in.status, in.errBody))

\* The payload forwarded as it stands after the prefix, untrimmed.
Content_Untrimmed(line) ==
    IF StartsWith(line, DATA) THEN Substring(line, 5) ELSE <<>>

\* if (line.startsWith('data:')) { const content = line.substring(5).trim();
\* ... }: the payload of a line, <<>> when there is nothing to forward.
Content(line) ==
    IF StartsWith(line, DATA) THEN Trim(Substring(line, 5)) ELSE <<>>

\* for (const line of lines) { ... onMessage(content) ... }: the log after the
\* loop, and whether an onMessage threw (which ends the loop).
RECURSIVE Dispatch(_, _, _)
Dispatch(in, lg, lines) ==
    IF lines = <<>> THEN [log |-> lg, threw |-> FALSE]
    ELSE LET content == Content(Head(lines)) IN
         IF content = <<>> THEN Dispatch(in, lg, Tail(lines))
         ELSE LET lg2 == Append(lg, OnMessage(content)) IN
              IF Throws(in, lg2) THEN [log |-> lg2, threw |-> TRUE]
              ELSE Dispatch(in, lg2, Tail(lines))

\* The buffer is left as it was split, complete lines included, instead of
\* being cut back to the last element.
RECURSIVE PopOrEmpty_KeepsAll(_)
PopOrEmpty_KeepsAll(lines) ==
    IF Len(lines) <= 1 THEN lines[Len(lines)]
    ELSE Head(lines) \o <<NL>> \o PopOrEmpty_KeepsAll(Tail(lines))

\* The partial last line is thrown away instead of being kept.
PopOrEmpty_Drops(lines) == <<>>

\* lines.pop() || ''
PopOrEmpty(lines) == lines[Len(lines)]

\* reader.read() resolves with a chunk: lines 134-150.
AfterChunk(in, s) ==
    LET d     == DecodeStream(s.pending, in.chunks[s.pos + 1])
        lines == Split(s.buffer \o d.text)
        r     == Dispatch(in, s.log, SubSeq(lines, 1, Len(lines) - 1))
        s2    == [s EXCEPT !.pos = s.pos + 1,
                           !.reads = s.reads + 1,
                           !.pending = d.dec,
                           !.buffer = PopOrEmpty(lines),
                           !.log = r.log]
    IN  IF r.threw THEN Catch(in, s2, CallbackThrown(in)) ELSE s2

\* The payload of the residual buffer, lines 154-160.
Residual(buf) ==
    IF Trim(buf) # <<>> /\ StartsWith(buf, DATA)
    THEN Trim(Substring(buf, 5))
    ELSE <<>>

\* The code after the loop, lines 153-161.
AfterLoop(in, s) ==
    LET content == Residual(s.buffer) IN
    IF content = <<>> THEN Return(s)
    ELSE LET lg == Append(s.log, OnMessage(content))
             s2 == [s EXCEPT !.log = lg]
         IN  IF Throws(in, lg) THEN Catch(in, s2, CallbackThrown(in))
             ELSE Return(s2)

\* reader.read() resolves with done: onComplete(); break; then the code
\* after the loop.
AfterDone(in, s) ==
    LET lg == Append(s.log, OnComplete)
        s2 == [s EXCEPT !.reads = s.reads + 1, !.log = lg]
    IN  IF Throws(in, lg) THEN Catch(in, s2, CallbackThrown(in))
        ELSE AfterLoop(in, s2)

\* A read made outside the try block: its rejection is reported to nobody
\* and rejects the promise.
AfterReadFailure_Uncaught(in, s) ==
    [s EXCEPT !.reads = s.reads + 1, !.pc = "done", !.outcome = "rejected"]

\* reader.read() rejects.
AfterReadFailure(in, s) ==
    Catch(in, [s EXCEPT !.reads = s.reads + 1], NewError(<<"network error">>))

\* What the pending reader.read() does for this input.
ReadResult(in, s) ==
    IF s.pos < Len(in.chunks) THEN "chunk"
    ELSE IF in.end = "eof" THEN "done"
    ELSE "rejects"

(***************************************************************************)
(* The inputs of an invocation: what fetch does, the response's status and *)
(* error body, whether it has a body stream, the chunks reader.read()      *)
(* delivers and how the stream ends, and which callback invocation (if     *)
(* any) throws.                                                            *)
(***************************************************************************)

\* Every way of cutting text into exactly n consecutive chunks (empty chunks
\* included).
RECURSIVE Cuts(_, _)
Cuts(text, n) ==
    IF n = 1 THEN {<<text>>}
    ELSE UNION {{<<SubSeq(text, 1, k)>> \o rest :
                   rest \in Cuts(SubSeq(text, k + 1, Len(text)), n - 1)} :
                k \in 0..Len(text)}

\* Every way of cutting text into at most n chunks.
Chunkings(text, n) ==
    UNION {Cuts(text, k) : k \in 1..n} \cup (IF text = <<>> THEN {<<>>} ELSE {})

HelloWorld ==
    DATA \o <<" ", "h", "e", "l", "l", "o", NL>>
         \o DATA \o <<" ", "w", "o", "r", "l", "d", NL>>

\* The response bodies of the model, as bytes.
Bodies ==
    { <<>>,
      HelloWorld,
      DATA \o <<"x">>,
      DATA \o <<"a", NL>> \o DATA \o <<" ", "b">>,
      DATA \o <<" ", " ", " ", NL>>,
      <<":", "c", NL, "e", ":", "x", NL, NL>>,
      DATA \o <<LeadByte, ContByte, NL>>,
      DATA \o <<"x", LeadByte>>,
      <<" ">> \o DATA \o <<"x">>,
      DATA \o <<"x", "\r", NL>>,
      <<"x">> }

\* The bodies used when two invocations run together.
ConcBodies ==
    { DATA \o <<"a", NL>>,
      <<"x", NL>> \o DATA \o <<"b">> }

NoErrorBody == [kind |-> "absent", hasMessage |-> FALSE, message |-> <<>>]

\* The bodies of a failed response, as response.json() sees them.
ErrorBodies ==
    { NoErrorBody,
      [kind |-> "unparsable", hasMessage |-> FALSE, message |-> <<>>],
      [kind |-> "null", hasMessage |-> FALSE, message |-> <<>>],
      [kind |-> "object", hasMessage |-> FALSE, message |-> <<>>],
      [kind |-> "object", hasMessage |-> TRUE, message |-> <<>>],
      [kind |-> "object", hasMessage |-> TRUE, message |-> <<"quota exceeded">>] }

RejectedFetch(k, isErr) ==
    [fetch |-> "rejects", status |-> 0, errBody |-> NoErrorBody, hasBody |-> FALSE,
     chunks |-> <<>>, end |-> "eof", throwAt |-> k, throwsError |-> isErr]

FailedResponse(st, body, k, isErr) ==
    [fetch |-> "responds", status |-> st, errBody |-> body, hasBody |-> TRUE,
     chunks |-> <<>>, end |-> "eof", throwAt |-> k, throwsError |-> isErr]

BodilessResponse(st, k, isErr) ==
    [fetch |-> "responds", status |-> st, errBody |-> NoErrorBody, hasBody |-> FALSE,
     chunks |-> <<>>, end |-> "eof", throwAt |-> k, throwsError |-> isErr]

StreamedResponse(st, cs, e, k, isErr) ==
    [fetch |-> "responds", status |-> st, errBody |-> NoErrorBody, hasBody |-> TRUE,
     chunks |-> cs, end |-> e, throwAt |-> k, throwsError |-> isErr]

\* The inputs of an invocation that runs alone.
Scenarios ==
    {RejectedFetch(k, isErr) : k \in 0..1, isErr \in BOOLEAN}
    \cup {FailedResponse(st, body, k, isErr) :
            st \in {404, 500}, body \in ErrorBodies, k \in 0..1, isErr \in BOOLEAN}
    \cup {BodilessResponse(200, k, isErr) : k \in 0..1, isErr \in BOOLEAN}
    \cup {StreamedResponse(200, cs, e, k, TRUE) :
            cs \in UNION {Chunkings(b, MaxChunks) : b \in Bodies},
            e \in {"eof", "fails"},
            k \in 0..MaxThrow}
    \cup {StreamedResponse(200, <<DATA \o <<"x">>>>, "eof", k, FALSE) : k \in 1..2}

\* The inputs of an invocation that runs beside another one.
ConcScenarios ==
    { RejectedFetch(0, TRUE),
      FailedResponse(500, NoErrorBody, 0, TRUE),
      BodilessResponse(200, 0, TRUE),
      StreamedResponse(200, <<DATA \o <<"a">>>>, "fails", 0, TRUE) }
    \cup {StreamedResponse(200, cs, "eof", 0, TRUE) :
            cs \in UNION {Chunkings(b, MaxConcChunks) : b \in ConcBodies}}

(***************************************************************************)
(* The state machine.                                                      *)
(***************************************************************************)

\* A decoder and a buffer declared at module level: one instance for all the
\* invocations.
Instance_Shared(i) == 1

\* `const decoder = new TextDecoder(); let buffer = '';` are declared inside
\* the function body: every invocation has its own decoder and buffer.
Instance(i) == i

\* The local state of invocation i.
Local(i) ==
    [pc |-> pc[i], pos |-> pos[i], pending |-> pending[Instance(i)],
     buffer |-> buffer[Instance(i)], log |-> log[i], reads |-> reads[i],
     outcome |-> outcome[i]]

Store(i, s) ==
    /\ pc' = [pc EXCEPT ![i] = s.pc]
    /\ pos' = [pos EXCEPT ![i] = s.pos]
    /\ pending' = [pending EXCEPT ![Instance(i)] = s.pending]
    /\ buffer' = [buffer EXCEPT ![Instance(i)] = s.buffer]
    /\ log' = [log EXCEPT ![i] = s.log]
    /\ reads' = [reads EXCEPT ![i] = s.reads]
    /\ outcome' = [outcome EXCEPT ![i] = s.outcome]
    /\ UNCHANGED input

\* The state of an invocation when the function is entered.
Entry ==
    [pc |-> "fetch", pos |-> 0, pending |-> 0, buffer |-> <<>>, log |-> <<>>,
     reads |-> 0, outcome |-> "pending"]

InitLocals ==
    /\ pos = [i \in Inv |-> Entry.pos]
    /\ pending = [i \in Inv |-> Entry.pending]
    /\ buffer = [i \in Inv |-> Entry.buffer]
    /\ log = [i \in Inv |-> Entry.log]
    /\ reads = [i \in Inv |-> Entry.reads]
    /\ outcome = [i \in Inv |-> Entry.outcome]

\* One invocation; the other one is never made.
Init ==
    /\ \E in \in Scenarios : input = [i \in Inv |-> IF i = 1 THEN in ELSE RejectedFetch(0, TRUE)]
    /\ pc = [i \in Inv |-> IF i = 1 THEN Entry.pc ELSE "idle"]
    /\ InitLocals

\* Two invocations in flight together.
InitConc ==
    /\ input \in [Inv -> ConcScenarios]
    /\ pc = [i \in Inv |-> Entry.pc]
    /\ InitLocals

\* await fetch(...) rejects.
FetchRejects(i) ==
    /\ pc[i] = "fetch"
    /\ input[i].fetch = "rejects"
    /\ Store(i, AfterFetch(input[i], Local(i)))

\* await fetch(...) resolves with a response whose status is not ok.
ResponseNotOk(i) ==
    /\ pc[i] = "fetch"
    /\ input[i].fetch = "responds"
    /\ ~ResponseOk(input[i].status)
    /\ Store(i, AfterFetch(input[i], Local(i)))

\* await fetch(...) resolves with an ok response that has no body.
NoBodyStream(i) ==
    /\ pc[i] = "fetch"
    /\ input[i].fetch = "responds"
    /\ ResponseOk(input[i].status)
    /\ ~input[i].hasBody
    /\ Store(i, AfterFetch(input[i], Local(i)))

\* await fetch(...) resolves with an ok response with a body: the reader,
\* the decoder and the buffer are set up and the first read is issued.
StreamOpens(i) ==
    /\ pc[i] = "fetch"
    /\ input[i].fetch = "responds"
    /\ ResponseOk(input[i].status)
    /\ input[i].hasBody
    /\ Store(i, AfterFetch(input[i], Local(i)))

\* await response.json() settles.
ErrorBodySettles(i) ==
    /\ pc[i] = "json"
    /\ Store(i, AfterJson(input[i], Local(i)))

\* await reader.read() resolves with {done: false, value}.
ReadChunk(i) ==
    /\ pc[i] = "read"
    /\ ReadResult(input[i], Local(i)) = "chunk"
    /\ Store(i, AfterChunk(input[i], Local(i)))

\* await reader.read() resolves with {done: true}.
ReadDone(i) ==
    /\ pc[i] = "read"
    /\ ReadResult(input[i], Local(i)) = "done"
    /\ Store(i, AfterDone(input[i], Local(i)))

\* await reader.read() rejects.
ReadRejects(i) ==
    /\ pc[i] = "read"
    /\ ReadResult(input[i], Local(i)) = "rejects"
    /\ Store(i, AfterReadFailure(input[i], Local(i)))

Next ==
    \/ \E i \in Inv : FetchRejects(i)
    \/ \E i \in Inv : ResponseNotOk(i)
    \/ \E i \in Inv : NoBodyStream(i)
    \/ \E i \in Inv : StreamOpens(i)
    \/ \E i \in Inv : ErrorBodySettles(i)
    \/ \E i \in Inv : ReadChunk(i)
    \/ \E i \in Inv : ReadDone(i)
    \/ \E i \in Inv : ReadRejects(i)

Spec == Init /\ [][Next]_vars

SpecConc == InitConc /\ [][Next]_vars

(***************************************************************************)
(* Observations on an invocation's callback log.                           *)
(***************************************************************************)

\* How many times the callback named cb has been invoked.
Calls(lg, cb) == Cardinality({k \in 1..Len(lg) : lg[k].cb = cb})

\* The onMessage payloads, in the order of the calls.
Payloads(lg) ==
    LET msgs == SelectSeq(lg, LAMBDA e : e.cb = "onMessage")
    IN  [k \in 1..Len(msgs) |-> msgs[k].text]

\* The text the decoder has produced when all the bytes of the body have
\* been read.
BodyText(in) == DecodeStream(0, Flatten(in.chunks)).text

\* The response passed the checks made before streaming.
Streams(in) == in.fetch = "responds" /\ ResponseOk(in.status) /\ in.hasBody

\* The read that reported end-of-stream has been made.
ReachedEnd(i) ==
    /\ Streams(input[i])
    /\ input[i].end = "eof"
    /\ reads[i] = Len(input[i].chunks) + 1

\* The read that failed has been made.
ReadFailed(i) ==
    /\ Streams(input[i])
    /\ input[i].end = "fails"
    /\ reads[i] = Len(input[i].chunks) + 1

\* The last, newline-unterminated line of a text.
LastLine(text) == LET ls == Split(text) IN ls[Len(ls)]

\* The complete (newline-terminated) lines of a text.
CompleteLines(text) == LET ls == Split(text) IN SubSeq(ls, 1, Len(ls) - 1)

\* The payload of a line `data:payload`, <<>> for any other line.
DataPayload(line) ==
    IF Len(line) >= 5 /\ \A k \in 1..5 : line[k] = DATA[k]
    THEN Trim([k \in 1..(Len(line) - 5) |-> line[k + 5]])
    ELSE <<>>

\* The reference decoding of a sequence of lines: the non-empty payloads of
\* its data lines, in order.
RECURSIVE ReferencePayloads(_)
ReferencePayloads(ls) ==
    IF ls = <<>> THEN <<>>
    ELSE LET rest == ReferencePayloads(SubSeq(ls, 1, Len(ls) - 1))
             p    == DataPayload(ls[Len(ls)])
         IN  IF p = <<>> THEN rest ELSE Append(rest, p)

(***************************************************************************)
(* C1.  A stream that reaches end-of-stream while the residual buffer      *)
(* holds an unterminated line `data:payload` with a non-empty trimmed      *)
(* payload gets onMessage(payload) before onComplete(), and onComplete()   *)
(* is the last callback invoked for the stream.  (Stated for callbacks     *)
(* that do not throw.)                                                     *)
(***************************************************************************)
C1_ResidualCase(i) ==
    /\ pc[i] = "done"
    /\ ReachedEnd(i)
    /\ input[i].throwAt = 0
    /\ DataPayload(LastLine(BodyText(input[i]))) # <<>>

C1_ResidualBeforeComplete ==
    \A i \in Inv :
        C1_ResidualCase(i) =>
            LET lg == log[i]
                p  == DataPayload(LastLine(BodyText(input[i])))
            IN  /\ lg # <<>>
                /\ lg[Len(lg)] = OnComplete
                /\ \E k \in 1..(Len(lg) - 1) : lg[k] = OnMessage(p)

\* The code's order on that stream: onComplete() first, the residual
\* payload after it.
C1_CompleteBeforeResidual ==
    \A i \in Inv :
        C1_ResidualCase(i) =>
            LET lg == log[i]
                p  == DataPayload(LastLine(BodyText(input[i])))
            IN  /\ Len(lg) >= 2
                /\ lg[Len(lg)] = OnMessage(p)
                /\ lg[Len(lg) - 1] = OnComplete

(***************************************************************************)
(* C2.  A response whose status is not successful and whose JSON body has  *)
(* a non-empty message field yields exactly one onError, carrying that     *)
(* message, and no onMessage and no onComplete.                            *)
(***************************************************************************)
C2_Case(i) ==
    /\ pc[i] = "done"
    /\ input[i].fetch = "responds"
    /\ ~ResponseOk(input[i].status)
    /\ HasMessage(input[i].errBody)

C2_BodyMessageReported ==
    \A i \in Inv :
        C2_Case(i) => log[i] = <<OnError(NewError(input[i].errBody.message))>>

(***************************************************************************)
(* C3.  In every run the number of terminal callbacks invoked, onComplete  *)
(* plus onError, never exceeds one, and it is exactly one when the         *)
(* invocation has finished.                                                *)
(***************************************************************************)
Terminals(lg) == Calls(lg, "onComplete") + Calls(lg, "onError")

C3_OneTerminalCallback ==
    \A i \in Inv :
        /\ Terminals(log[i]) <= 1
        /\ pc[i] = "done" => Terminals(log[i]) = 1

(***************************************************************************)
(* C4.  Once onError has been invoked nothing is invoked after it: onError *)
(* is the last entry of the log in every state.  After a failed read there *)
(* is no onComplete at all, the log ends with the onError, and (when no    *)
(* callback throws) the onMessage calls made for the complete lines of the *)
(* chunks read before the failure stand.                                   *)
(***************************************************************************)
C4_NothingAfterError ==
    \A i \in Inv :
        LET lg == log[i] IN
        /\ \A k \in 1..Len(lg) : lg[k].cb = "onError" => k = Len(lg)
        /\ (pc[i] = "done" /\ ReadFailed(i) /\ input[i].throwAt = 0) =>
              /\ Calls(lg, "onComplete") = 0
              /\ Calls(lg, "onError") = 1
              /\ Payloads(lg) = ReferencePayloads(CompleteLines(BodyText(input[i])))

\* A read failed after a chunk whose line had been forwarded.
C4_Witness ==
    /\ pc[1] = "done"
    /\ ReadFailed(1)
    /\ input[1].throwAt = 0
    /\ Len(input[1].chunks) >= 2
    /\ Len(log[1]) >= 2
    /\ log[1][1].cb = "onMessage"
    /\ log[1][Len(log[1])].cb = "onError"

(***************************************************************************)
(* An invocation run alone: the local states it goes through from entry    *)
(* to return, one per settled await.                                       *)
(***************************************************************************)
StepLocal(in, s) ==
    CASE s.pc = "fetch" -> AfterFetch(in, s)
      [] s.pc = "json" -> AfterJson(in, s)
      [] s.pc = "read" /\ ReadResult(in, s) = "chunk" -> AfterChunk(in, s)
      [] s.pc = "read" /\ ReadResult(in, s) = "done" -> AfterDone(in, s)
      [] s.pc = "read" /\ ReadResult(in, s) = "rejects" -> AfterReadFailure(in, s)
      [] OTHER -> s

RECURSIVE Trajectory(_, _)
Trajectory(in, s) ==
    IF s.pc = "done" THEN <<s>> ELSE <<s>> \o Trajectory(in, StepLocal(in, s))

RunAlone(in) == LET t == Trajectory(in, Entry) IN t[Len(t)]

\* The same input with the whole body delivered as one chunk.
SingleChunk(in) == [in EXCEPT !.chunks = <<Flatten(in.chunks)>>]

(***************************************************************************)
(* C5.  However the body is cut into chunks, the sequence of onMessage     *)
(* payloads of the finished invocation is the one the same body gives      *)
(* when it is delivered as a single chunk.                                 *)
(***************************************************************************)
C5_ChunkingInvariance ==
    \A i \in Inv :
        pc[i] = "done" =>
            Payloads(log[i]) = Payloads(RunAlone(SingleChunk(input[i])).log)

\* A finished stream that was cut inside the `data:` prefix and right
\* before a newline, with an empty chunk, and forwarded payloads.
C5_Witness ==
    /\ pc[1] = "done"
    /\ ReachedEnd(1)
    /\ Len(input[1].chunks) = 3
    /\ input[1].chunks[1] = <<"d", "a">>
    /\ input[1].chunks[2] = <<>>
    /\ Len(Payloads(log[1])) = 2

(***************************************************************************)
(* C6.  For a successfully completed stream the onMessage payloads are,    *)
(* in order, the trimmed non-empty payloads of the `data:` lines of the    *)
(* whole decoded text split on newlines; other lines and whitespace-only   *)
(* payloads give nothing.  The chunks "data: hel", "lo\ndata: world\n"     *)
(* give onMessage("hello"), onMessage("world"), onComplete() in that       *)
(* order.                                                                  *)
(***************************************************************************)
Completed(i) ==
    /\ pc[i] = "done"
    /\ ReachedEnd(i)
    /\ Calls(log[i], "onError") = 0

ExampleChunks ==
    << DATA \o <<" ", "h", "e", "l">>,
       <<"l", "o", NL>> \o DATA \o <<" ", "w", "o", "r", "l", "d", NL>> >>

ExampleLog ==
    << OnMessage(<<"h", "e", "l", "l", "o">>),
       OnMessage(<<"w", "o", "r", "l", "d">>),
       OnComplete >>

C6_PayloadsAreReference ==
    \A i \in Inv :
        Completed(i) =>
            /\ Payloads(log[i]) = ReferencePayloads(Split(BodyText(input[i])))
            /\ Calls(log[i], "onComplete") = 1
            /\ input[i].chunks = ExampleChunks => log[i] = ExampleLog

C6_Witness ==
    /\ Completed(1)
    /\ input[1].chunks = ExampleChunks
    /\ Len(log[1]) = 3

(***************************************************************************)
(* C7.  A response whose status is not successful and whose body is        *)
(* absent, unparsable or without a message yields exactly one onError,     *)
(* whose message contains the status code in decimal, and no onMessage     *)
(* and no onComplete.                                                      *)
(***************************************************************************)
\* sub occurs in msg as a run of consecutive elements.
Contains(msg, sub) ==
    \E k \in 0..(Len(msg) - Len(sub)) : SubSeq(msg, k + 1, k + Len(sub)) = sub

C7_Case(i) ==
    /\ pc[i] = "done"
    /\ input[i].fetch = "responds"
    /\ ~ResponseOk(input[i].status)
    /\ ~HasMessage(input[i].errBody)

C7_StatusCodeReported ==
    \A i \in Inv :
        C7_Case(i) =>
            /\ Len(log[i]) = 1
            /\ log[i][1].cb = "onError"
            /\ log[i][1].error.isError
            /\ Contains(log[i][1].error.message, NumberToString(input[i].status))

C7_Witness ==
    /\ C7_Case(1)
    /\ input[1].status = 500
    /\ input[1].errBody.kind = "unparsable"
    /\ Contains(log[1][1].error.message, <<"5", "0", "0">>)

(***************************************************************************)
(* C8.  When a precondition of streaming fails (the request fails, the     *)
(* status is not successful, or the response has no body stream) no read   *)
(* is ever made on the body stream, before or after the onError that       *)
(* reports it.                                                             *)
(***************************************************************************)
PreconditionFails(in) == ~Streams(in)

C8_NoReadOnFailedPrecondition ==
    \A i \in Inv :
        (pc[i] # "idle" /\ PreconditionFails(input[i])) =>
            /\ reads[i] = 0
            /\ pc[i] = "done" =>
                  /\ Calls(log[i], "onError") = 1
                  /\ Len(log[i]) = 1

C8_Witness ==
    /\ pc[1] = "done"
    /\ input[1].fetch = "responds"
    /\ ResponseOk(input[1].status)
    /\ ~input[1].hasBody
    /\ log[1] = <<OnError(NewError(NoStreamMessage))>>
    /\ reads[1] = 0

(***************************************************************************)
(* C9.  No error escapes uncaught: every exception raised inside the       *)
(* streaming operation, callback invocations included, is delivered to     *)
(* onError as an Error value, and the returned promise resolves rather     *)
(* than rejects.                                                           *)
(***************************************************************************)
\* The callback invocation that throws is one of onMessage or onComplete.
CallbackThrewInTry(i) ==
    /\ input[i].throwAt \in 1..Len(log[i])
    /\ log[i][input[i].throwAt].cb \in {"onMessage", "onComplete"}

\* The callback invocation that throws is the onError.
OnErrorThrew(i) ==
    /\ input[i].throwAt \in 1..Len(log[i])
    /\ log[i][input[i].throwAt].cb = "onError"

\* An exception was raised inside the try block.
RaisedInTry(i) ==
    \/ PreconditionFails(input[i])
    \/ ReadFailed(i)
    \/ CallbackThrewInTry(i)

\* The last callback invoked is onError, with an Error value.
DeliveredToOnError(i) ==
    /\ log[i] # <<>>
    /\ log[i][Len(log[i])].cb = "onError"
    /\ log[i][Len(log[i])].error.isError

C9_NoErrorEscapes ==
    \A i \in Inv :
        pc[i] = "done" =>
            /\ (RaisedInTry(i) \/ OnErrorThrew(i)) => DeliveredToOnError(i)
            /\ outcome[i] = "resolved"

\* C9 as amended: every exception raised inside the try block (opening the
\* request, status check, missing body, reading, frame dispatch, onMessage
\* or onComplete) is delivered to onError, once, as an Error value; the
\* promise resolves, except that an exception thrown by onError itself
\* rejects it.
C9_TryErrorsReachOnError ==
    \A i \in Inv :
        pc[i] = "done" =>
            /\ RaisedInTry(i) =>
                  /\ DeliveredToOnError(i)
                  /\ Calls(log[i], "onError") = 1
            /\ ~RaisedInTry(i) => Calls(log[i], "onError") = 0
            /\ outcome[i] = IF OnErrorThrew(i) THEN "rejected" ELSE "resolved"

\* An onMessage that threw in the middle of a stream was reported.
C9_Witness ==
    /\ pc[1] = "done"
    /\ input[1].throwAt = 1
    /\ Len(log[1]) = 2
    /\ log[1][1].cb = "onMessage"
    /\ DeliveredToOnError(1)
    /\ outcome[1] = "resolved"

(***************************************************************************)
(* C10.  Two invocations that run together, their awaits settling in any   *)
(* order, do not disturb each other: at every point each invocation is in  *)
(* a state it goes through when it runs alone on the same input, so its    *)
(* callbacks are the ones of the run alone.                                *)
(***************************************************************************)
C10_IndependentInvocations ==
    \A i \in Inv :
        LET t == Trajectory(input[i], Entry)
        IN  /\ \E k \in 1..Len(t) : Local(i) = t[k]
            /\ pc[i] = "done" => log[i] = RunAlone(input[i]).log

\* Both invocations are in the middle of their streams, each holding a
\* partial line of its own.
C10_Witness ==
    /\ pc[1] = "read" /\ pc[2] = "read"
    /\ pos[1] = 1 /\ pos[2] = 1
    /\ buffer[1] # <<>> /\ buffer[2] # <<>>
    /\ buffer[1] # buffer[2]

(***************************************************************************)
(* C11.  The text buffer is empty at stream start and, whenever the        *)
(* function is suspended at an await or a callback is running, holds no    *)
(* newline: it is exactly the text after the last newline of what has      *)
(* been decoded so far, every complete line before it having been          *)
(* dispatched and removed.                                                 *)
(***************************************************************************)
\* The text decoded from the chunks invocation i has read so far.
DecodedSoFar(i) ==
    DecodeStream(0, Flatten(SubSeq(input[i].chunks, 1, pos[i]))).text

HasNewline(t) == \E k \in 1..Len(t) : t[k] = NL

====
